---------------------------- MODULE Spec2Model ----------------------------
(***************************************************************************)
(* A model of fast_format.py (Mnemosyne plugin "Fast Format", v2.0.4):     *)
(* the rule compiler compile_formats, the substitution engine format, the  *)
(* resource protection strip_tags / thread_tags and the 2.x filter         *)
(* FastFormat (reconfigure, run).                                          *)
(*                                                                         *)
(* Texts, patterns and replacement templates are TLA+ strings; character i *)
(* of s is SubSeq(s, i, i).  The regular expressions are not abstracted:   *)
(* the pattern text is parsed into a tree (re_compile) and matched by a    *)
(* backtracking matcher that returns its successes in the order in which   *)
(* Python's engine tries them, so that the first success is the match      *)
(* Python finds.  The parser covers the syntax used by the patterns of     *)
(* this program and of the rule sets drawn below: literals, \-escaped      *)
(* punctuation, '.', '^', sets [..] and [^..] (with digit ranges), groups  *)
(* (..) and (?:..), alternation and the repeats '*' and '*?'.              *)
(***************************************************************************)
EXTENDS Integers, Sequences, FiniteSets, TLC

\* U+FFFC OBJECT REPLACEMENT CHARACTER, written here as one ASCII character
\* that no other text of the model uses.
OBJ == "~"

\* U+0060 GRAVE ACCENT (the backtick), which a TLA+ string cannot hold, written
\* as the apostrophe; no other text of the model uses the apostrophe.
BQ == "'"

Digits == "0123456789"

At(s, i) == SubSeq(s, i, i)

RECURSIVE IndexOf(_, _, _)
\* The least k >= i with At(s, k) = c, or 0.
IndexOf(s, c, i) ==
    IF i > Len(s) THEN 0
    ELSE IF At(s, i) = c THEN i
    ELSE IndexOf(s, c, i + 1)

Contains(s, c) == IndexOf(s, c, 1) # 0

IsDigit(c) == Len(c) = 1 /\ Contains(Digits, c)

(***************************************************************************)
(* re.compile(pattern, re.DOTALL): the parser.  A parse result is          *)
(* [ok, node, pos, groups]: pos is the next unread position and groups the *)
(* number of capturing groups opened so far.  Nodes are tuples:            *)
(*   <<"lit", c>>  <<"any">>  <<"bol">>  <<"in", negated, members>>        *)
(*   <<"grp", n, node>> (n = 0: non-capturing)  <<"cat", nodes>>           *)
(*   <<"alt", nodes>>  <<"rep", lazy, node>>                               *)
(***************************************************************************)
ParseFail(i, g) == [ok |-> FALSE, node |-> <<>>, pos |-> i, groups |-> g]

ParseOk(n, i, g) == [ok |-> TRUE, node |-> n, pos |-> i, groups |-> g]

RECURSIVE ParseSet(_, _, _, _, _)
\* The members of a set, from position j; start is the position of the first
\* member, where a ']' is a member and does not close the set.
ParseSet(p, j, start, neg, acc) ==
    IF j > Len(p) THEN ParseFail(j, 0)          \* unexpected end of regular expression
    ELSE IF At(p, j) = "]" /\ j # start
         THEN ParseOk(<<"in", neg, acc>>, j + 1, 0)
    ELSE IF At(p, j) = "\\"
         THEN IF j = Len(p) THEN ParseFail(j, 0)   \* bogus escape (end of line)
              ELSE ParseSet(p, j + 2, start, neg, acc \o At(p, j + 1))
    ELSE IF /\ j + 2 <= Len(p) /\ At(p, j + 1) = "-" /\ At(p, j + 2) # "]"
            /\ IsDigit(At(p, j)) /\ IsDigit(At(p, j + 2))
         THEN IF IndexOf(Digits, At(p, j), 1) > IndexOf(Digits, At(p, j + 2), 1)
              THEN ParseFail(j, 0)                  \* bad character range
              ELSE ParseSet(p, j + 3, start, neg,
                            acc \o SubSeq(Digits, IndexOf(Digits, At(p, j), 1),
                                                  IndexOf(Digits, At(p, j + 2), 1)))
    ELSE ParseSet(p, j + 1, start, neg, acc \o At(p, j))

RECURSIVE ParseBranches(_, _, _, _)
RECURSIVE ParseItems(_, _, _, _)

\* After a set: r is its parse.
AfterSet(p, g, acc, r) ==
    IF r.ok THEN ParseItems(p, r.pos, g, Append(acc, r.node))
    ELSE ParseFail(r.pos, g)

\* After the '(' of group n (0: non-capturing): r is the parse of its branches.
AfterGroup(p, g, acc, n, r) ==
    IF ~r.ok THEN r
    ELSE IF r.pos > Len(p) \/ At(p, r.pos) # ")"
         THEN ParseFail(r.pos, g)                   \* unbalanced parenthesis
    ELSE ParseItems(p, r.pos + 1, r.groups, Append(acc, <<"grp", n, r.node>>))

\* sre_parse._parse: the items of one branch, up to '|', ')' or the end.
ParseItems(p, i, g, acc) ==
    IF i > Len(p) \/ At(p, i) = "|" \/ At(p, i) = ")"
    THEN ParseOk(<<"cat", acc>>, i, g)
    ELSE
      CASE At(p, i) = "*" ->
             IF Len(acc) = 0 \/ acc[Len(acc)][1] = "bol"
             THEN ParseFail(i, g)                   \* nothing to repeat
             ELSE IF acc[Len(acc)][1] = "rep"
             THEN ParseFail(i, g)                   \* multiple repeat
             ELSE IF i + 1 <= Len(p) /\ At(p, i + 1) = "?"
             THEN ParseItems(p, i + 2, g,
                             Append(SubSeq(acc, 1, Len(acc) - 1),
                                    <<"rep", TRUE, acc[Len(acc)]>>))
             ELSE ParseItems(p, i + 1, g,
                             Append(SubSeq(acc, 1, Len(acc) - 1),
                                    <<"rep", FALSE, acc[Len(acc)]>>))
        [] At(p, i) = "." -> ParseItems(p, i + 1, g, Append(acc, <<"any">>))
        [] At(p, i) = "^" -> ParseItems(p, i + 1, g, Append(acc, <<"bol">>))
        [] At(p, i) = "\\" ->
             IF i = Len(p) THEN ParseFail(i, g)     \* bogus escape (end of line)
             ELSE ParseItems(p, i + 2, g, Append(acc, <<"lit", At(p, i + 1)>>))
        [] At(p, i) = "[" ->
             IF i + 1 <= Len(p) /\ At(p, i + 1) = "^"
             THEN AfterSet(p, g, acc, ParseSet(p, i + 2, i + 2, TRUE, ""))
             ELSE AfterSet(p, g, acc, ParseSet(p, i + 1, i + 1, FALSE, ""))
        [] At(p, i) = "(" ->
             IF i + 1 <= Len(p) /\ At(p, i + 1) = "?"
             THEN IF i + 2 <= Len(p) /\ At(p, i + 2) = ":"
                  THEN AfterGroup(p, g, acc, 0, ParseBranches(p, i + 3, g, <<>>))
                  ELSE ParseFail(i, g)              \* unknown extension
             ELSE AfterGroup(p, g, acc, g + 1, ParseBranches(p, i + 1, g + 1, <<>>))
        [] OTHER -> ParseItems(p, i + 1, g, Append(acc, <<"lit", At(p, i)>>))

\* After a branch: r is its parse, acc the branches before it.
AfterBranch(p, acc, r) ==
    IF ~r.ok THEN r
    ELSE IF r.pos <= Len(p) /\ At(p, r.pos) = "|"
         THEN ParseBranches(p, r.pos + 1, r.groups, Append(acc, r.node))
    ELSE IF Len(acc) = 0 THEN r
    ELSE ParseOk(<<"alt", Append(acc, r.node)>>, r.pos, r.groups)

\* sre_parse._parse_sub: the branches of an alternation.
ParseBranches(p, i, g, acc) == AfterBranch(p, acc, ParseItems(p, i, g, <<>>))

\* The pattern object of a parse r of all of p (its .pattern and .groups, and
\* the tree the matcher runs), or the re.error: a parse error, or a ')' left
\* over (unbalanced parenthesis).
Compiled(p, r) ==
    IF r.ok /\ r.pos > Len(p)
    THEN [ok |-> TRUE, pattern |-> p, groups |-> r.groups, code |-> r.node]
    ELSE [ok |-> FALSE, pattern |-> p, groups |-> 0, code |-> <<>>]

\* re.compile(p, re.DOTALL)
re_compile(p) == Compiled(p, ParseBranches(p, 1, 0, <<>>))

(***************************************************************************)
(* The matcher.  Match(n, s, i, caps) is the sequence of the ways node n   *)
(* matches s from position i, each <<next position, captures>>, in the     *)
(* order the backtracking engine tries them.  caps[k] is <<b, e>>: group k *)
(* holds SubSeq(s, b, e - 1); <<0, 0>> is a group that did not take part.  *)
(***************************************************************************)
RECURSIVE Match(_, _, _, _)
RECURSIVE MatchCat(_, _, _, _, _)
RECURSIVE MatchAlt(_, _, _, _, _)
RECURSIVE MatchRep(_, _, _, _, _)
RECURSIVE Continue(_, _, _, _, _)
RECURSIVE Repeat(_, _, _, _, _, _)

\* The ways rs of matching the body of group k from i, each with the group set.
Capture(k, i, rs) ==
    IF k = 0 THEN rs
    ELSE [j \in 1..Len(rs) |-> <<rs[j][1], [rs[j][2] EXCEPT ![k] = <<i, rs[j][1]>>]>>]

Match(n, s, i, caps) ==
    CASE n[1] = "lit" -> IF i <= Len(s) /\ At(s, i) = n[2]
                         THEN << <<i + 1, caps>> >> ELSE <<>>
      [] n[1] = "any" -> IF i <= Len(s)             \* DOTALL: any character
                         THEN << <<i + 1, caps>> >> ELSE <<>>
      [] n[1] = "bol" -> IF i = 1 THEN << <<i, caps>> >> ELSE <<>>
      [] n[1] = "in"  -> IF i <= Len(s) /\ (Contains(n[3], At(s, i)) # n[2])
                         THEN << <<i + 1, caps>> >> ELSE <<>>
      [] n[1] = "grp" -> Capture(n[2], i, Match(n[3], s, i, caps))
      [] n[1] = "cat" -> MatchCat(n[2], 1, s, i, caps)
      [] n[1] = "alt" -> MatchAlt(n[2], 1, s, i, caps)
      [] n[1] = "rep" -> MatchRep(n[3], n[2], s, i, caps)

\* The items of a sequence from item k on.
MatchCat(items, k, s, i, caps) ==
    IF k > Len(items) THEN << <<i, caps>> >>
    ELSE Continue(Match(items[k], s, i, caps), 1, items, k + 1, s)

\* Each way rs[j..] of matching an item, continued with the items that follow.
Continue(rs, j, items, k, s) ==
    IF j > Len(rs) THEN <<>>
    ELSE MatchCat(items, k, s, rs[j][1], rs[j][2]) \o Continue(rs, j + 1, items, k, s)

\* The branches of an alternation, the leftmost first.
MatchAlt(branches, k, s, i, caps) ==
    IF k > Len(branches) THEN <<>>
    ELSE Match(branches[k], s, i, caps) \o MatchAlt(branches, k + 1, s, i, caps)

\* n*? (lazy: stop first) and n* (greedy: one more n first).
MatchRep(n, lazy, s, i, caps) ==
    IF lazy
    THEN << <<i, caps>> >> \o Repeat(Match(n, s, i, caps), 1, n, lazy, s, i)
    ELSE Repeat(Match(n, s, i, caps), 1, n, lazy, s, i) \o << <<i, caps>> >>

\* Each way rs[j..] of matching n once more from i, repeated on; an empty
\* match of n ends the repeat.
Repeat(rs, j, n, lazy, s, i) ==
    IF j > Len(rs) THEN <<>>
    ELSE (IF rs[j][1] > i THEN MatchRep(n, lazy, s, rs[j][1], rs[j][2]) ELSE <<>>)
         \o Repeat(rs, j + 1, n, lazy, s, i)

NoMatch == [found |-> FALSE, b |-> 0, e |-> 0, caps |-> <<>>]

RECURSIVE Search(_, _, _)

\* rs: the ways re matches s from start.
SearchAt(re, s, start, rs) ==
    IF Len(rs) > 0
    THEN [found |-> TRUE, b |-> start, e |-> rs[1][1], caps |-> rs[1][2]]
    ELSE Search(re, s, start + 1)

\* regex.search from position start: the leftmost match, as [found, b, e, caps]
\* with the match SubSeq(s, b, e - 1).
Search(re, s, start) ==
    IF start > Len(s) + 1 THEN NoMatch
    ELSE SearchAt(re, s, start,
                  Match(re.code, s, start, [k \in 1..re.groups |-> <<0, 0>>]))

Group(s, m, k) == SubSeq(s, m.caps[k][1], m.caps[k][2] - 1)

(***************************************************************************)
(* regex.sub(repl, string, count): sre_parse.parse_template and            *)
(* expand_template (Python 2: a group reference is checked when a match is *)
(* expanded, not when the template is parsed) and the loop of _sre's       *)
(* pattern_subx.  A call yields [ok, val]; ~ok is a raised re.error.       *)
(***************************************************************************)
Raised == [ok |-> FALSE, val |-> ""]

Value(v) == [ok |-> TRUE, val |-> v]

RECURSIVE parse_template(_, _, _)
\* The template from position j on, as a sequence of <<"lit", text>> and
\* <<"grp", k>>; "\\" is a backslash, other escaped punctuation stays as written.
parse_template(repl, j, acc) ==
    IF j > Len(repl) THEN [ok |-> TRUE, parts |-> acc]
    ELSE IF At(repl, j) # "\\"
         THEN parse_template(repl, j + 1, Append(acc, <<"lit", At(repl, j)>>))
    ELSE IF j = Len(repl) THEN [ok |-> FALSE, parts |-> <<>>]   \* bogus escape (end of line)
    ELSE IF IsDigit(At(repl, j + 1))
         THEN parse_template(repl, j + 2,
                             Append(acc, <<"grp", IndexOf(Digits, At(repl, j + 1), 1) - 1>>))
    ELSE IF At(repl, j + 1) = "\\"
         THEN parse_template(repl, j + 2, Append(acc, <<"lit", "\\">>))
    ELSE parse_template(repl, j + 2, Append(acc, <<"lit", SubSeq(repl, j, j + 1)>>))

\* A part's text followed by the expansion of the parts after it.
Then(here, rest) == IF rest.ok THEN Value(here \o rest.val) ELSE Raised

RECURSIVE expand_template(_, _, _, _, _)
\* The replacement text of match m of re in s, from part k on.
expand_template(parts, k, re, s, m) ==
    IF k > Len(parts) THEN Value("")
    ELSE IF parts[k][1] = "lit"
         THEN Then(parts[k][2], expand_template(parts, k + 1, re, s, m))
    ELSE IF parts[k][2] > re.groups THEN Raised             \* invalid group reference
    ELSE IF parts[k][2] = 0
         THEN Then(SubSeq(s, m.b, m.e - 1), expand_template(parts, k + 1, re, s, m))
    ELSE IF m.caps[parts[k][2]] = <<0, 0>> THEN Raised      \* unmatched group
    ELSE Then(Group(s, m, parts[k][2]), expand_template(parts, k + 1, re, s, m))

\* The text before a match, its replacement x and the rest of the result.
Joined(before, x, rest) ==
    IF ~x.ok \/ ~rest.ok THEN Raised ELSE Value(before \o x.val \o rest.val)

\* Where the search goes on after match m.
NextStart(m) == IF m.e = m.b THEN m.e + 1 ELSE m.e

RECURSIVE subx(_, _, _, _, _, _, _)

\* One turn of the loop of pattern_subx, m being what the search found.
subx_found(re, parts, s, count, i, n, m) ==
    IF ~m.found THEN Value(SubSeq(s, i, Len(s)))
    ELSE IF i = m.b /\ i = m.e /\ n > 0
         THEN subx(re, parts, s, count, NextStart(m), i, n)
                                        \* ignore empty match on latest position
    ELSE Joined(SubSeq(s, i, m.b - 1), expand_template(parts, 1, re, s, m),
                subx(re, parts, s, count, NextStart(m), m.e, n + 1))

\* pattern_subx: start is where the next search starts, i the end of the text
\* copied so far, n the number of replacements made.
subx(re, parts, s, count, start, i, n) ==
    IF count = 0 \/ n < count
    THEN subx_found(re, parts, s, count, i, n, Search(re, s, start))
    ELSE Value(SubSeq(s, i, Len(s)))

\* t: the parsed template.
sub_template(re, t, s, count) ==
    IF ~t.ok THEN Raised ELSE subx(re, t.parts, s, count, 1, 1, 0)

regex_sub(re, repl, s, count) == sub_template(re, parse_template(repl, 1, <<>>), s, count)

RECURSIVE re_split(_, _, _, _)

\* One turn of the loop of pattern_split, m being what the search found.
split_found(re, s, last, m) ==
    IF ~m.found THEN <<SubSeq(s, last, Len(s))>>
    ELSE IF m.e = m.b
         THEN IF last = Len(s) + 1 THEN <<SubSeq(s, last, Len(s))>>
              ELSE re_split(re, s, m.b + 1, last)
    ELSE <<SubSeq(s, last, m.b - 1), Group(s, m, 1)>> \o re_split(re, s, m.e, m.e)

\* regex.split(string) of a pattern with one group that always takes part
\* (_sre's pattern_split): the texts between the matches alternate with the
\* matches' group 1; an empty match splits nothing.
re_split(re, s, start, last) == split_found(re, s, last, Search(re, s, start))

RECURSIVE join(_)
\* "".join(texts)
join(texts) == IF Len(texts) = 0 THEN "" ELSE Head(texts) \o join(Tail(texts))

RECURSIVE ToDecimal(_)
\* '%d' % n, n >= 0
ToDecimal(n) ==
    IF n < 10 THEN At(Digits, n + 1)
    ELSE ToDecimal(n \div 10) \o At(Digits, (n % 10) + 1)

RECURSIVE int(_, _)
\* int(s) of a string of decimal digits (v: the value read so far); -1 is the
\* ValueError that int('') raises.
int(s, v) ==
    IF Len(s) = 0 THEN v
    ELSE int(SubSeq(s, 2, Len(s)),
             (IF v < 0 THEN 0 ELSE v) * 10 + IndexOf(Digits, At(s, 1), 1) - 1)

(***************************************************************************)
(* The program.                                                            *)
(***************************************************************************)
\* The built-in rules with one thing changed: guard is the pattern before an
\* opening delimiter, content the pattern of a span's text, star_unescape the
\* rules after the bold rule, and double_first tells whether the rules of the
\* doubled backtick and hash come before those of the single ones.
formats_variant(guard, content, star_unescape, double_first) ==
    << <<guard \o "(\\[" \o content \o "[^\\\\]\\])",
         "\\1<font color=\"gray\"><i>\\2</i></font>">>,
       <<"\\\\\\[", "[">>,
       <<"\\\\\\]", "]">>,
       <<guard \o "\\{(" \o content \o "[^\\\\])\\}", "\\1<i>(\\2)</i>">>,
       <<"\\\\\\{", "{">>,
       <<"\\\\\\}", "}">>,
       <<guard \o "_(" \o content \o "[^\\\\])_", "\\1<i>\\2</i>">>,
       <<"\\\\_", "_">>,
       <<guard \o "\\*(" \o content \o "[^\\\\])\\*", "\\1<b>\\2</b>">> >>
    \o star_unescape
    \o (IF double_first
        THEN << <<guard \o BQ \o BQ \o "(" \o content \o "[^\\\\])" \o BQ \o BQ,
                  "\\1<font color=\"gray\">\\2</font>">>,
                <<guard \o BQ \o "(" \o content \o "[^\\\\])" \o BQ,
                  "\\1<font color=\"red\">\\2</font>">> >>
        ELSE << <<guard \o BQ \o "(" \o content \o "[^\\\\])" \o BQ,
                  "\\1<font color=\"red\">\\2</font>">>,
                <<guard \o BQ \o BQ \o "(" \o content \o "[^\\\\])" \o BQ \o BQ,
                  "\\1<font color=\"gray\">\\2</font>">> >>)
    \o << <<"\\\\" \o BQ, BQ>> >>
    \o (IF double_first
        THEN << <<guard \o "##(" \o content \o "[^\\\\])##",
                  "\\1<font color=\"green\">\\2</font>">>,
                <<guard \o "#(" \o content \o "[^\\\\])#",
                  "\\1<font color=\"blue\">\\2</font>">> >>
        ELSE << <<guard \o "#(" \o content \o "[^\\\\])#",
                  "\\1<font color=\"blue\">\\2</font>">>,
                <<guard \o "##(" \o content \o "[^\\\\])##",
                  "\\1<font color=\"green\">\\2</font>">> >>)
    \o << <<"\\\\#", "#">> >>

\* The built-in rules with a guard that lets a backslash through.
default_formats_unguarded ==
    formats_variant("(.|^)", ".*?", << <<"\\\\\\*", "*">> >>, TRUE)

\* The built-in rules without the rule that turns \* into *.
default_formats_star_kept ==
    formats_variant("([^\\\\]|^)", ".*?", <<>>, TRUE)

\* The built-in rules with the single backtick and hash before the doubled.
default_formats_single_first ==
    formats_variant("([^\\\\]|^)", ".*?", << <<"\\\\\\*", "*">> >>, FALSE)

\* The built-in rules with a greedy span text.
default_formats_greedy ==
    formats_variant("([^\\\\]|^)", ".*", << <<"\\\\\\*", "*">> >>, TRUE)

\* The built-in rules, (regex, replacement), as written in the source (a
\* backslash of the Python raw string is written \\ here). Order is important.
default_formats == <<
    <<"([^\\\\]|^)(\\[.*?[^\\\\]\\])",
      "\\1<font color=\"gray\"><i>\\2</i></font>">>,   \* [ ... ] to [gray italics]
    <<"\\\\\\[",
      "[">>,
    <<"\\\\\\]",
      "]">>,
    <<"([^\\\\]|^)\\{(.*?[^\\\\])\\}",
      "\\1<i>(\\2)</i>">>,   \* { ... } to (italics)
    <<"\\\\\\{",
      "{">>,
    <<"\\\\\\}",
      "}">>,
    <<"([^\\\\]|^)_(.*?[^\\\\])_",
      "\\1<i>\\2</i>">>,   \* _ ... _ to italics
    <<"\\\\_",
      "_">>,
    <<"([^\\\\]|^)\\*(.*?[^\\\\])\\*",
      "\\1<b>\\2</b>">>,   \* * ... * to bold
    <<"\\\\\\*",
      "*">>,
    <<"([^\\\\]|^)" \o BQ \o BQ \o "(.*?[^\\\\])" \o BQ \o BQ,
      "\\1<font color=\"gray\">\\2</font>">>,   \* `` ... `` to gray
    <<"([^\\\\]|^)" \o BQ \o "(.*?[^\\\\])" \o BQ,
      "\\1<font color=\"red\">\\2</font>">>,   \* ` ... ` to red
    <<"\\\\" \o BQ,
      BQ>>,
    <<"([^\\\\]|^)##(.*?[^\\\\])##",
      "\\1<font color=\"green\">\\2</font>">>,   \* ## ... ## to green
    <<"([^\\\\]|^)#(.*?[^\\\\])#",
      "\\1<font color=\"blue\">\\2</font>">>,   \* # ... # to blue
    <<"\\\\#",
      "#">>
  >>

RECURSIVE compile_from(_, _, _)

\* compile_entry with the try around the whole loop: the first pattern that
\* raises ends the compilation.
compile_entry_abort(formats, k, results, cret) ==
    IF cret.ok THEN compile_from(formats, k + 1, Append(results, <<cret, formats[k][2]>>))
    ELSE results

\* The body of the loop of compile_formats for entry k, cret being what
\* re.compile returned or raised: an entry whose pattern raises re.error is
\* passed over.
compile_entry(formats, k, results, cret) ==
    IF cret.ok THEN compile_from(formats, k + 1, Append(results, <<cret, formats[k][2]>>))
    ELSE compile_from(formats, k + 1, results)

\* The loop of compile_formats from entry k on.
compile_from(formats, k, results) ==
    IF k > Len(formats) THEN results
    ELSE compile_entry(formats, k, results, re_compile(formats[k][1]))

compile_formats(formats) == compile_from(formats, 1, <<>>)

tag_re == re_compile("(<[^>]*>)")

startswith(t, prefix) ==
    Len(t) >= Len(prefix) /\ SubSeq(t, 1, Len(prefix)) = prefix

\* sub replacing the first match only (count=1).
sub_first(regex, subtext, t) == regex_sub(regex, subtext, t, 1)

\* regex.sub(subtext, text), as format calls it: every match is replaced.
sub(regex, subtext, t) == regex_sub(regex, subtext, t, 0)

RECURSIVE apply_skipping(_, _, _)

\* try: t = regex.sub(subtext, t) / except re.error: pass
sub_or_pass(t, formats, k, r) ==
    IF r.ok THEN apply_skipping(r.val, formats, k + 1)
    ELSE apply_skipping(t, formats, k + 1)

\* The inner loop of format with skip_tags: each rule in turn on t.
apply_skipping(t, formats, k) ==
    IF k > Len(formats) THEN t
    ELSE sub_or_pass(t, formats, k, sub(formats[k][1], formats[k][2], t))

\* One piece t of tag_re.split(text) in format with skip_tags.
format_piece(t, formats) ==
    IF ~startswith(t, "<") THEN apply_skipping(t, formats, 1) ELSE t

format_pieces(texts, formats) ==
    join([k \in 1..Len(texts) |-> format_piece(texts[k], formats)])

RECURSIVE apply_all(_, _, _)

\* text = regex.sub(subtext, text) under the try of format: a re.error ends
\* the loop, and format returns the text as it then is.
sub_or_return(t, formats, k, r) ==
    IF r.ok THEN apply_all(r.val, formats, k + 1) ELSE t

\* The loop of format without skip_tags.
apply_all(t, formats, k) ==
    IF k > Len(formats) THEN t
    ELSE sub_or_return(t, formats, k, sub(formats[k][1], formats[k][2], t))

format(t, formats, skip) ==
    IF skip THEN format_pieces(re_split(tag_re, t, 1, 1), formats)
    ELSE apply_all(t, formats, 1)

strip_re == re_compile("(< *(?:img|audio)[^>]*>)")

thread_re == re_compile(OBJ \o "([0-9]*)" \o OBJ)

\* The loop and the return of strip_tags: texts[i] for the odd Python indices
\* i = j - 1 are the tags.
strip_texts(texts) ==
    [text |-> join([j \in 1..Len(texts) |->
                      IF j % 2 = 0
                      THEN OBJ \o ToDecimal(((j - 1) - 1) \div 2) \o OBJ
                      ELSE texts[j]]),
     tags |-> [n \in 1..(Len(texts) \div 2) |-> texts[2 * n]]]

strip_tags(t) == strip_texts(re_split(strip_re, t, 1, 1))

\* The loop and the return of thread_tags: [ok, val]; ~ok is the ValueError
\* of int('') or the IndexError of tags[n], which the function lets through.
thread_texts(texts, tags) ==
    IF \E j \in 1..Len(texts) :
          j % 2 = 0 /\ (int(texts[j], -1) < 0 \/ int(texts[j], -1) >= Len(tags))
    THEN Raised
    ELSE Value(join([j \in 1..Len(texts) |->
                       IF j % 2 = 0 THEN tags[int(texts[j], -1) + 1] ELSE texts[j]]))

thread_tags(t, tags) == thread_texts(re_split(thread_re, t, 1, 1), tags)

\* return thread_tags(format(text, self.compiled_formats), tags)
run_stripped(st, formats) == thread_tags(format(st.text, formats, FALSE), st.tags)

\* FastFormat.run (Mnemosyne 2.x)
run(t, formats) == run_stripped(strip_tags(t), formats)

(***************************************************************************)
(* The inputs.                                                             *)
(***************************************************************************)
MaxRules == 2

MaxTokens == 2

\* The (pattern, replacement) pairs a user's rule list is drawn from: two
\* literal rules (the second matches the output of the first), a pattern that
\* does not compile, a rule whose replacement refers to a group the pattern
\* lacks, a rule that matches a digit, and a second pattern that compiles.
RulePool ==
    { <<"a", "b">>, <<"b", "c">>, <<"(unterminated", "x">>, <<"(a)", "\\2">>,
      <<"0", "1">>, <<"ok", "z">> }

\* What a text is put together from: a letter, an unclosed '<', a tag, the
\* object replacement character, a digit and an image reference.
Tokens == { "a", "<", "<a>", OBJ, "0", "<img src=\"a0\">" }

RECURSIVE Lists(_, _)
\* The sequences of at most n elements of S.
Lists(S, n) ==
    IF n = 0 THEN { <<>> }
    ELSE Lists(S, n - 1) \cup { Append(l, x) : l \in Lists(S, n - 1), x \in S }

RECURSIVE Strings(_, _)
\* The concatenations of at most n elements of S.
Strings(S, n) ==
    IF n = 0 THEN { "" }
    ELSE Strings(S, n - 1) \cup { t \o x : t \in Strings(S, n - 1), x \in S }

FormatLists == Lists(RulePool, MaxRules)

Texts == Strings(Tokens, MaxTokens)

(***************************************************************************)
(* The plugin (Mnemosyne 2.x) as a state machine.                          *)
(*   config_formats    config()["formats"], the rule list as configured    *)
(*   compiled_formats  FastFormat.compiled_formats                         *)
(*   config            the settings store of Mnemosyne 1.x (get_config):   *)
(*                     empty under Mnemosyne 2.x                           *)
(*   op, text, skip_tags, result                                           *)
(*                     the call in progress ("none": the host is idle),    *)
(*                     its text argument and what it returned or raised    *)
(***************************************************************************)
VARIABLES config_formats, compiled_formats, config, op, text, skip_tags, result

vars == <<config_formats, compiled_formats, config, op, text, skip_tags, result>>

\* A dict without keys.
EmptyDict == [k \in {} |-> TRUE]

\* FastFormatConfig.run sets the default of "formats"; FastFormat.__init__
\* calls reconfigure.
Init ==
    /\ config_formats = default_formats
    /\ compiled_formats = compile_formats(default_formats)
    /\ config = EmptyDict
    /\ op = "none"
    /\ text = ""
    /\ skip_tags = FALSE
    /\ result = Value("")

\* FastFormatConfigWdgt.apply with the table holding fs: the rule list is
\* stored and the filter reconfigured.
Apply(fs) ==
    /\ op = "none"
    /\ config_formats' = fs
    /\ compiled_formats' = compile_formats(fs)
    /\ UNCHANGED <<config, op, text, skip_tags, result>>

\* FastFormat.run(t, ...): the host renders a text.
Run(t) ==
    /\ op = "none"
    /\ op' = "run"
    /\ text' = t
    /\ skip_tags' = FALSE
    /\ result' = run(t, compiled_formats)
    /\ UNCHANGED <<config_formats, compiled_formats, config>>

\* format(t, compiled_formats, skip): the preview of the settings dialog
\* (skip_tags left False) and the 1.x hook (skip_tags=True) call it directly.
Format(t, skip) ==
    /\ op = "none"
    /\ op' = "format"
    /\ text' = t
    /\ skip_tags' = skip
    /\ result' = Value(format(t, compiled_formats, skip))
    /\ UNCHANGED <<config_formats, compiled_formats, config>>

\* The call returns to the host.
Return ==
    /\ op \in { "run", "format" }
    /\ op' = "none"
    /\ text' = ""
    /\ skip_tags' = FALSE
    /\ result' = Value("")
    /\ UNCHANGED <<config_formats, compiled_formats, config>>

Next ==
    \/ \E fs \in FormatLists : Apply(fs)
    \/ \E t \in Texts : Run(t)
    \/ \E t \in Texts, skip \in BOOLEAN : Format(t, skip)
    \/ Return

Spec == Init /\ [][Next]_vars

(***************************************************************************)
(* The plugin with the built-in rules left as they are: the texts are      *)
(* shorthand texts, and no rule list is applied from the dialog.           *)
(***************************************************************************)
MaxUnits == 2

MaxPlain == 1

MaxStar == 6

\* The shorthand delimiters, and those that open a span with the one that
\* closes it.
Delimiters == "[]{}_*" \o BQ \o "#"

Openers == { "[", "{", "_", "*", BQ, "#" }

Closer(d) == IF d = "[" THEN "]" ELSE IF d = "{" THEN "}" ELSE d

\* Non-empty texts of ordinary characters.
Plain == Strings({ "a", "b" }, MaxPlain) \ { "" }

\* An ordinary character, or a delimiter with a backslash before it.
EscapedUnits == { "a" } \cup { "\\" \o At(Delimiters, i) : i \in 1..Len(Delimiters) }

\* Texts in which every delimiter is escaped.
EscapedTexts == Strings(EscapedUnits, MaxUnits)

\* Texts whose one opening delimiter is escaped.
EscapedOpenerTexts ==
    { pre \o "\\" \o d \o x \o Closer(d) : pre \in { "", "y" }, d \in Openers, x \in Plain }

\* ``x`` and ##x##
DoubledTexts ==
    { BQ \o BQ \o x \o BQ \o BQ : x \in Plain } \cup { "##" \o x \o "##" : x \in Plain }

\* *a*b*c*
TwoSpanTexts == { "*" \o a \o "*" \o b \o "*" \o c \o "*" : a \in Plain, b \in Plain, c \in Plain }

\* Texts of letters, asterisks and backslashes.
StarTexts == Strings({ "a", "*", "\\" }, MaxStar)

DefaultTexts ==
    EscapedTexts \cup EscapedOpenerTexts \cup DoubledTexts \cup TwoSpanTexts \cup StarTexts

\* The preview of the settings dialog: format(text, compiled_formats).
Preview(t) == Format(t, FALSE)

NextDefault ==
    \/ \E t \in DefaultTexts : Run(t)
    \/ \E t \in DefaultTexts : Preview(t)
    \/ Return

SpecDefault == Init /\ [][NextDefault]_vars

(***************************************************************************)
(* The plugin under Mnemosyne 1.x: config holds what config.py set, the    *)
(* module is imported (p = FastFormat(); p.load()) and the hooks then call *)
(* run.  op = "import" until load has returned.                            *)
(***************************************************************************)
\* d[k] = v
SetItem(d, k, v) == [x \in DOMAIN d \cup { k } |-> IF x = k THEN v ELSE d[x]]

has_key(d, k) == k \in DOMAIN d

\* try: config = get_config("fast_format") / except KeyError: config = {}
get_config(store) ==
    IF has_key(store, "fast_format") THEN store["fast_format"] ELSE EmptyDict

\* if not config.has_key('include_default'): config['include_default'] = True
with_include_default(d) ==
    IF has_key(d, "include_default") THEN d ELSE SetItem(d, "include_default", TRUE)

\* The formats that load compiles, d being config once include_default is
\* set; self.formats is default_formats.
load_formats(d) ==
    IF has_key(d, "formats")
    THEN IF d["include_default"] THEN d["formats"] \o default_formats ELSE d["formats"]
    ELSE default_formats

\* config after load: formats.extend(self.formats) extends the list that
\* config['formats'] holds.
load_config(d) ==
    IF has_key(d, "formats") /\ d["include_default"]
    THEN SetItem(d, "formats", d["formats"] \o default_formats)
    ELSE d

\* The settings store after load: the dict that get_config returned is the
\* one changed; on KeyError set_config stores a new {} and load goes on with
\* a dict of its own.
load_store(store) ==
    IF has_key(store, "fast_format")
    THEN SetItem(store, "fast_format", load_config(with_include_default(store["fast_format"])))
    ELSE SetItem(store, "fast_format", EmptyDict)

\* The dicts config.py can set fast_format to, and the settings stores.
Dicts ==
    { [k \in K |-> IF k = "formats" THEN fs ELSE inc] :
        K \in SUBSET { "formats", "include_default" }, fs \in FormatLists, inc \in BOOLEAN }

Stores == { EmptyDict } \cup { [n \in { "fast_format" } |-> d] : d \in Dicts }

\* The card texts the hooks are called with.
HookTexts == { "*a*", "<a>*a*" }

InitLoad ==
    /\ config_formats = default_formats
    /\ compiled_formats = <<>>
    /\ config \in Stores
    /\ op = "import"
    /\ text = ""
    /\ skip_tags = FALSE
    /\ result = Value("")

\* FastFormat.load (Mnemosyne 1.x)
Load ==
    /\ op = "import"
    /\ op' = "none"
    /\ config' = load_store(config)
    /\ compiled_formats' = compile_formats(load_formats(with_include_default(get_config(config))))
    /\ UNCHANGED <<config_formats, text, skip_tags, result>>

\* FastFormat.run (Mnemosyne 1.x); exclude_cats is empty.
Hook(t) == Format(t, TRUE)

NextLoad ==
    \/ Load
    \/ \E t \in HookTexts : Hook(t)
    \/ Return

SpecLoad == InitLoad /\ [][NextLoad]_vars


(***************************************************************************)
(* Properties.                                                             *)
(***************************************************************************)
\* The entries of the configured rule list whose pattern compiles.
Kept == { k \in 1..Len(config_formats) : re_compile(config_formats[k][1]).ok }

\* The j-th smallest element of a set of numbers.
Nth(S, j) == CHOOSE k \in S : Cardinality({ i \in S : i < k }) = j - 1

\* C1: compile_formats returns exactly the pairs whose pattern compiles, in
\* their original order: the j-th compiled rule is the j-th entry that
\* compiles, with its pattern and its replacement; no entry is added,
\* duplicated, reordered or, unless malformed, dropped.  A list of the
\* malformed "(unterminated" and the valid "ok" yields the one rule "ok".
C1_CompileKeepsValidInOrder ==
    /\ Len(compiled_formats) = Cardinality(Kept)
    /\ \A j \in 1..Len(compiled_formats) :
          /\ compiled_formats[j][1].ok
          /\ compiled_formats[j][1].pattern = config_formats[Nth(Kept, j)][1]
          /\ compiled_formats[j][2] = config_formats[Nth(Kept, j)][2]
    /\ config_formats = << <<"(unterminated", "x">>, <<"ok", "z">> >>
          => /\ Len(compiled_formats) = 1
             /\ compiled_formats[1][1].pattern = "ok"
             /\ compiled_formats[1][2] = "z"

\* A malformed entry before a valid one has been compiled.
C1_Witness ==
    /\ config_formats = << <<"(unterminated", "x">>, <<"ok", "z">> >>
    /\ Len(compiled_formats) = 1

RECURSIVE FoldSkipping(_, _, _)
\* The left-to-right fold of the rules from rule k on over t, each rule
\* replacing every match, in which a rule that raises acts as the identity.
FoldSkipping(t, formats, k) ==
    IF k > Len(formats) THEN t
    ELSE IF regex_sub(formats[k][1], formats[k][2], t, 0).ok
         THEN FoldSkipping(regex_sub(formats[k][1], formats[k][2], t, 0).val, formats, k + 1)
    ELSE FoldSkipping(t, formats, k + 1)

RECURSIVE NoneRaises(_, _, _)
\* No rule from rule k on raises when the rules are folded over t.
NoneRaises(t, formats, k) ==
    \/ k > Len(formats)
    \/ /\ regex_sub(formats[k][1], formats[k][2], t, 0).ok
       /\ NoneRaises(regex_sub(formats[k][1], formats[k][2], t, 0).val, formats, k + 1)

\* The pieces texts of a text split at its complete tags, the rules folded
\* over those that pass keep.
FoldPieces(texts, formats, keep(_, _)) ==
    join([j \in 1..Len(texts) |->
            IF keep(j, texts[j]) THEN texts[j] ELSE FoldSkipping(texts[j], formats, 1)])

StartsWithBracket(j, t) == startswith(t, "<")

IsTagPosition(j, t) == j % 2 = 0

\* C2: a rule that raises while format applies it is skipped, alone: format
\* returns the fold of all rules in which that rule is the identity (with
\* skip_tags, on each piece the rules are applied to), with skip_tags False as
\* with skip_tags True.
C2_RaisingRuleAloneIsSkipped ==
    op = "format" =>
        result.val = IF skip_tags
                     THEN FoldPieces(re_split(tag_re, text, 1, 1), compiled_formats,
                                     StartsWithBracket)
                     ELSE FoldSkipping(text, compiled_formats, 1)

\* C3: with skip_tags the result is the concatenation of the pieces of the
\* text split at its complete tags '<...>', each tag unchanged and each other
\* piece, one that begins with an unclosed '<' too, replaced by the rule
\* cascade on it.
C3_EveryNonTagPieceIsFormatted ==
    (op = "format" /\ skip_tags) =>
        result.val = FoldPieces(re_split(tag_re, text, 1, 1), compiled_formats,
                                IsTagPosition)

\* The img/audio reference tags of a text, in order.
ResourceTags(t) == strip_tags(t).tags

\* C4: FastFormat.run returns a text that holds the img/audio reference tags
\* of its input, each unchanged, once and in the original order, whatever the
\* compiled rules; stated here for the texts that hold no object replacement
\* character of their own (those are C5's), which the claim covers as well.
\* (No rule drawn here writes a tag.)
C4_ResourceTagsPreserved ==
    (op = "run" /\ ~Contains(text, OBJ)) =>
        result.ok /\ ResourceTags(result.val) = ResourceTags(text)

\* C5: no input text collides with a placeholder: with no rule, run (that is
\* thread_tags of strip_tags) does not raise and returns its input.
C5_NoPlaceholderCollision ==
    (op = "run" /\ Len(compiled_formats) = 0) => result.ok /\ result.val = text

RECURSIVE ReplaceChar(_, _, _)
\* t with every character c replaced by r.
ReplaceChar(t, c, r) ==
    IF Len(t) = 0 THEN ""
    ELSE (IF At(t, 1) = c THEN r ELSE At(t, 1)) \o ReplaceChar(SubSeq(t, 2, Len(t)), c, r)

\* C6: without protection format returns the left-to-right fold of the rules
\* over the text, rule i applied to the output of rule i - 1, each rule
\* replacing every match of its pattern (so a rule list of the one rule
\* 'c' -> 'r' replaces every c), whenever no rule raises; and the rule list
\* is still the compiled configuration.
C6_FormatIsFoldOfAllMatches ==
    (op = "format" /\ ~skip_tags) =>
        /\ NoneRaises(text, compiled_formats, 1)
              => result.val = FoldSkipping(text, compiled_formats, 1)
        /\ \A rule \in { <<"a", "b">>, <<"0", "1">> } :
              config_formats = <<rule>> => result.val = ReplaceChar(text, rule[1], rule[2])
        /\ compiled_formats = compile_formats(config_formats)

\* Two matches of the first rule, whose output the second rule rewrites.
C6_Witness ==
    /\ op = "format" /\ ~skip_tags
    /\ text = "aa"
    /\ config_formats = << <<"a", "b">>, <<"b", "c">> >>
    /\ result.val = "cc"

RECURSIVE StripEscapes(_)
\* t without the backslashes that stand before a delimiter.
StripEscapes(t) ==
    IF Len(t) = 0 THEN ""
    ELSE IF Len(t) >= 2 /\ At(t, 1) = "\\" /\ Contains(Delimiters, At(t, 2))
         THEN At(t, 2) \o StripEscapes(SubSeq(t, 3, Len(t)))
    ELSE At(t, 1) \o StripEscapes(SubSeq(t, 2, Len(t)))

\* A call under the built-in rules has returned.
DefaultCall == op # "none" /\ config_formats = default_formats

\* C7: under the built-in rules a delimiter with a backslash before it opens
\* no span: a text whose one opening delimiter is escaped comes out without
\* markup, the delimiter literal and its backslash removed.
C7_EscapedDelimiterOpensNoSpan ==
    \A pre \in { "", "y" }, d \in Openers, x \in Plain :
        (DefaultCall /\ text = pre \o "\\" \o d \o x \o Closer(d)) =>
            /\ result = Value(pre \o d \o x \o Closer(d))
            /\ ~Contains(result.val, "<")

\* \*a* has been formatted.
C7_Witness ==
    /\ DefaultCall /\ op = "format"
    /\ text = "\\*a*"
    /\ result.val = "*a*"

\* C8: under the built-in rules a text of ordinary characters and delimiters,
\* every delimiter escaped, comes out as the text without the escaping
\* backslashes and without markup.
C8_AllEscapedIsUnescaped ==
    (DefaultCall /\ text \in EscapedTexts) =>
        /\ result = Value(StripEscapes(text))
        /\ ~Contains(result.val, "<")
        /\ ~Contains(result.val, "\\")

\* \[\] has been formatted.
C8_Witness ==
    /\ DefaultCall /\ op = "format"
    /\ text = "\\[\\]"
    /\ result.val = "[]"

\* Whether t holds the text x.
HasText(t, x) == \E i \in 1..(Len(t) - Len(x) + 1) : SubSeq(t, i, i + Len(x) - 1) = x

\* C9: under the built-in rules the doubled backtick and the doubled hash are
\* tried before the single ones: ``x`` comes out as one gray span of x and
\* ##x## as one green span of x, with no red or blue span and no backtick or
\* hash left.
C9_DoubledBeforeSingle ==
    \A x \in Plain :
        /\ (DefaultCall /\ text = BQ \o BQ \o x \o BQ \o BQ) =>
              /\ result = Value("<font color=\"gray\">" \o x \o "</font>")
              /\ ~HasText(result.val, "red") /\ ~Contains(result.val, BQ)
        /\ (DefaultCall /\ text = "##" \o x \o "##") =>
              /\ result = Value("<font color=\"green\">" \o x \o "</font>")
              /\ ~HasText(result.val, "blue") /\ ~Contains(result.val, "#")

\* ##a## has been formatted.
C9_Witness ==
    /\ DefaultCall /\ op = "format"
    /\ text = "##a##"
    /\ result.val = "<font color=\"green\">a</font>"

RECURSIVE NearestCloser(_, _)
\* The first asterisk of t at j or after it that has no backslash before it
\* (0: there is none).
NearestCloser(t, j) ==
    IF j > Len(t) THEN 0
    ELSE IF At(t, j) = "*" /\ At(t, j - 1) # "\\" THEN j
    ELSE NearestCloser(t, j + 1)

\* The asterisk that opens a span when the bold rule is tried at p (0: none):
\* the one after the character at p, which is no backslash, or at the start
\* of the text the first one; a span has at least one character of text.
OpenerAt(t, p) ==
    IF p + 1 <= Len(t) /\ At(t, p) # "\\" /\ At(t, p + 1) = "*"
       /\ NearestCloser(t, p + 3) # 0
    THEN p + 1
    ELSE IF p = 1 /\ At(t, 1) = "*" /\ NearestCloser(t, 3) # 0 THEN 1
    ELSE 0

RECURSIVE BoldSpans(_, _)
\* t from position i on, each opening asterisk paired with the nearest
\* closing one and the text between them made a bold span.
BoldSpans(t, i) ==
    IF i > Len(t) THEN ""
    ELSE LET P == { p \in i..Len(t) : OpenerAt(t, p) # 0 }
         IN  IF P = {} THEN SubSeq(t, i, Len(t))
             ELSE LET p == CHOOSE q \in P : \A r \in P : q <= r
                      o == OpenerAt(t, p)
                      j == NearestCloser(t, o + 2)
                  IN  SubSeq(t, i, o - 1) \o "<b>" \o SubSeq(t, o + 1, j - 1) \o "</b>"
                         \o BoldSpans(t, j + 1)

\* C10: under the built-in rules an opening asterisk pairs with the nearest
\* closing asterisk that is not escaped and leaves a text between them, never
\* with a later one: *a*b*c* comes out as a bold a, the literal b and a bold
\* c (a, b and c non-empty and without delimiters).
C10_SpanEndsAtNearestCloser ==
    /\ (DefaultCall /\ text \in StarTexts) =>
          result = Value(StripEscapes(BoldSpans(text, 1)))
    /\ \A a \in Plain, b \in Plain, c \in Plain :
          (DefaultCall /\ text = "*" \o a \o "*" \o b \o "*" \o c \o "*") =>
              result = Value("<b>" \o a \o "</b>" \o b \o "<b>" \o c \o "</b>")

\* *a*b*a* has been formatted.
C10_Witness ==
    /\ DefaultCall /\ op = "format"
    /\ text = "*a*b*a*"
    /\ result.val = "<b>a</b>b<b>a</b>"

\* The patterns of the default shortcuts.
DefaultPatterns == { default_formats[k][1] : k \in 1..Len(default_formats) }

\* The 'formats' entry of fast_format in the settings store (none: no rule).
UserFormats(store) ==
    IF has_key(store, "fast_format") /\ has_key(store["fast_format"], "formats")
    THEN store["fast_format"]["formats"]
    ELSE <<>>

\* Whether fast_format sets 'include_default' to inc.
IncludeDefaultIs(store, inc) ==
    /\ has_key(store, "fast_format")
    /\ has_key(store["fast_format"], "include_default")
    /\ store["fast_format"]["include_default"] = inc

\* C11: when load runs, a configuration with 'include_default' False, with
\* or without a 'formats' entry, gives a compiled rule list without any
\* default shortcut, and one with 'include_default' True gives the user's
\* rules followed by the default shortcuts.
C11_IncludeDefaultOverridesDefaults ==
    [][(op = "import" /\ op' = "none") =>
          /\ IncludeDefaultIs(config, FALSE) =>
                \A j \in 1..Len(compiled_formats') :
                    compiled_formats'[j][1].pattern \notin DefaultPatterns
          /\ IncludeDefaultIs(config, TRUE) =>
                compiled_formats' = compile_formats(UserFormats(config) \o default_formats)]_vars

=============================================================================
